---- MODULE Spec2Model ----
(***************************************************************************)
(* Model of src/app.py: a Streamlit page over a table of association       *)
(* rules.  Every user interaction reruns the whole script; one action of   *)
(* this module is one interaction followed by the complete rerun.          *)
(*                                                                         *)
(* Numbers.  support and confidence are held in hundredths (0.30 is 30),   *)
(* lift in tenths (1.2 is 12): both sliders move on these grids.           *)
(* Text.  A string is a sequence of one-character strings, so that         *)
(* joining, lower-casing, slicing and pattern search are computed.         *)
(***************************************************************************)
EXTENDS Integers, Sequences, FiniteSets, TLC

VARIABLES
    artifact,          \* association_rules.pkl on disk: [kind, table]
    setOrder,          \* iteration order of each frozenset in this process
    rules,             \* what st.cache_resource holds for load_model()
    min_confidence,    \* slider state, hundredths
    min_lift,          \* slider state, tenths
    selected_product,  \* selectbox state
    top_n,             \* number_input state
    search,            \* text_input state
    out                \* what the last run of the script rendered

vars == <<artifact, setOrder, rules, min_confidence, min_lift,
          selected_product, top_n, search, out>>

(***************************************************************************)
(* Bounds of the model.                                                    *)
(***************************************************************************)
\* longest rule table explored
MaxRules == 3
\* largest top_n explored below the default
MaxTopN == 2

(***************************************************************************)
(* Program constants.                                                      *)
(***************************************************************************)
ConfMin == 0
ConfMax == 100
ConfDefault == 30
ConfStep == 5
LiftMin == 10
LiftMax == 150
LiftDefault == 12
LiftStep == 1
TopNMin == 1
TopNMax == 10
TopNDefault == 5
TopK == 10
NameCut == 30

\* float('nan'), the mean or maximum of an empty column
NaN == [nan |-> TRUE, num |-> 0, den |-> 1]

(***************************************************************************)
(* Text                                                                    *)
(***************************************************************************)
Chars == {"A", "B", "C", "a", "b", "c", "d", ",", " ", ".", "("}

CodePoint(ch) ==
    CASE ch = " " -> 32 [] ch = "(" -> 40 [] ch = "," -> 44 [] ch = "." -> 46
      [] ch = "A" -> 65 [] ch = "B" -> 66 [] ch = "C" -> 67
      [] ch = "a" -> 97 [] ch = "b" -> 98 [] ch = "c" -> 99 [] ch = "d" -> 100

\* str.lower() on one character
LowerCh(ch) ==
    CASE ch = "A" -> "a" [] ch = "B" -> "b" [] ch = "C" -> "c" [] OTHER -> ch

\* Python's < on str: lexicographic by code point
RECURSIVE StrLess(_, _)
StrLess(s, t) ==
    IF t = <<>> THEN FALSE
    ELSE IF s = <<>> THEN TRUE
    ELSE IF CodePoint(Head(s)) # CodePoint(Head(t))
         THEN CodePoint(Head(s)) < CodePoint(Head(t))
         ELSE StrLess(Tail(s), Tail(t))

\* s[:n]
Prefix(s, n) == SubSeq(s, 1, IF Len(s) < n THEN Len(s) ELSE n)

\* ', '.join(parts)
RECURSIVE Join(_)
Join(parts) ==
    IF parts = <<>> THEN <<>>
    ELSE IF Len(parts) = 1 THEN parts[1]
    ELSE parts[1] \o <<",", " ">> \o Join(Tail(parts))

Digits == <<"0", "1", "2", "3", "4", "5", "6", "7", "8", "9">>

DigitCh(d) == Digits[d + 1]

RECURSIVE NatStr(_)
NatStr(n) == IF n < 10 THEN <<DigitCh(n)>> ELSE Append(NatStr(n \div 10), DigitCh(n % 10))

Pow10(k) == CASE k = 0 -> 1 [] k = 1 -> 10 [] k = 2 -> 100 [] k = 3 -> 1000 [] k = 4 -> 10000

\* f"{num/den:.{decimals}f}", the quotient rounded to the nearest (halves up)
FixedStr(num, den, decimals) ==
    LET m == (2 * num * Pow10(decimals) + den) \div (2 * den)
    IN  NatStr(m \div Pow10(decimals)) \o <<".">>
            \o [i \in 1..decimals |-> DigitCh((m \div Pow10(decimals - i)) % 10)]

\* f"{x:.4f}", f"{x:.3f}", f"{x:.2f}", f"{x:.2%}" of a value num/den or of nan
Fmt4f(x) == IF x.nan THEN <<"n", "a", "n">> ELSE FixedStr(x.num, x.den, 4)
Fmt3f(x) == IF x.nan THEN <<"n", "a", "n">> ELSE FixedStr(x.num, x.den, 3)
Fmt2f(x) == IF x.nan THEN <<"n", "a", "n">> ELSE FixedStr(x.num, x.den, 2)
FmtPct(x) ==
    IF x.nan THEN <<"n", "a", "n", "%">> ELSE FixedStr(100 * x.num, x.den, 2) \o <<"%">>

\* the texts of the values a column can hold, computed once
Text4f == [n \in 0..100 |-> Fmt4f([nan |-> FALSE, num |-> n, den |-> 100])]
Text3f == [n \in 0..100 |-> Fmt3f([nan |-> FALSE, num |-> n, den |-> 100])]
TextPct == [n \in 0..100 |-> FmtPct([nan |-> FALSE, num |-> n, den |-> 100])]
TextLift == [n \in 0..200 |-> Fmt2f([nan |-> FALSE, num |-> n, den |-> 10])]


(***************************************************************************)
(* Rules and tables                                                        *)
(***************************************************************************)
ItemAb == <<"a", "b">>
ItemC == <<"C">>
ItemD == <<"d">>

\* The rules a table is drawn from: antecedent and consequent non-empty and
\* disjoint, two rules of equal lift, one rule below each default threshold,
\* one rule without the item "ab".
RuleUniverse ==
    { [antecedents |-> {ItemAb}, consequents |-> {ItemC},
       support |-> 10, confidence |-> 60, lift |-> 18],
      [antecedents |-> {ItemAb}, consequents |-> {ItemD},
       support |-> 5, confidence |-> 40, lift |-> 13],
      [antecedents |-> {ItemAb, ItemC}, consequents |-> {ItemD},
       support |-> 8, confidence |-> 25, lift |-> 13],
      [antecedents |-> {ItemC}, consequents |-> {ItemD},
       support |-> 8, confidence |-> 55, lift |-> 11] }

ItemSets == UNION {{r.antecedents, r.consequents} : r \in RuleUniverse}

\* sequences of n distinct elements of S
RECURSIVE DistinctSeqs(_, _)
DistinctSeqs(S, n) ==
    IF n = 0 THEN {<<>>}
    ELSE UNION {{Append(t, x) : x \in S \ {t[i] : i \in 1..Len(t)}} : t \in DistinctSeqs(S, n - 1)}

Perms(S) == DistinctSeqs(S, Cardinality(S))

\* a DataFrame: its rows in order, each carrying its index label
Row(label, r) ==
    [idx |-> label, antecedents |-> r.antecedents, consequents |-> r.consequents,
     support |-> r.support, confidence |-> r.confidence, lift |-> r.lift]

\* the mined tables: up to MaxRules distinct rules under a RangeIndex
Tables ==
    UNION {{[i \in 1..n |-> Row(i - 1, t[i])] : t \in DistinctSeqs(RuleUniverse, n)} : n \in 0..MaxRules}

\* list(s) for a frozenset s
ListOf(s) == setOrder[s]

(***************************************************************************)
(* pandas                                                                  *)
(***************************************************************************)
RECURSIVE SumSeq(_)
SumSeq(s) == IF s = <<>> THEN 0 ELSE Head(s) + SumSeq(Tail(s))

\* df[col].sum()
SumOf(df, col) == SumSeq([i \in 1..Len(df) |-> df[i][col]])

\* Series.mean() of a column kept in units of 1/scale: nan when empty
Mean(df, col, scale) ==
    IF df = <<>> THEN NaN ELSE [nan |-> FALSE, num |-> SumOf(df, col), den |-> scale * Len(df)]

\* Series.max() of a column kept in units of 1/scale: nan when empty
Max(df, col, scale) ==
    IF df = <<>> THEN NaN
    ELSE [nan |-> FALSE,
          num |-> CHOOSE m \in {df[i][col] : i \in 1..Len(df)} :
                      \A j \in 1..Len(df) : df[j][col] <= m,
          den |-> scale]

\* faulty variant: a later row of equal lift goes first, as keep='last' would have it
RECURSIVE InsertByLiftLast(_, _)
InsertByLiftLast(sorted, r) ==
    IF sorted = <<>> THEN <<r>>
    ELSE IF Head(sorted).lift > r.lift THEN <<Head(sorted)>> \o InsertByLiftLast(Tail(sorted), r)
    ELSE <<r>> \o sorted

\* rows ordered by lift descending, rows of equal lift in their order in df
RECURSIVE InsertByLift(_, _)
InsertByLift(sorted, r) ==
    IF sorted = <<>> THEN <<r>>
    ELSE IF Head(sorted).lift >= r.lift THEN <<Head(sorted)>> \o InsertByLift(Tail(sorted), r)
    ELSE <<r>> \o sorted

RECURSIVE SortByLift(_)
SortByLift(df) ==
    IF df = <<>> THEN <<>>
    ELSE InsertByLift(SortByLift(SubSeq(df, 1, Len(df) - 1)), df[Len(df)])

\* faulty variant: sorted but not cut to n rows
NLargestUncut(df, n) == SortByLift(df)

\* df.nlargest(n, 'lift') with the default keep='first', as pandas documents
\* it: the first n rows by descending lift, first occurrences preferred
NLargest(df, n) == Prefix(SortByLift(df), n)

\* re.search(pat, text, re.IGNORECASE) for the patterns of this alphabet: "(" opens
\* a group that nothing closes (re.error), "." matches any character, every other
\* character matches itself in either case
RegexError(pat) == \E i \in 1..Len(pat) : pat[i] = "("

RegexCharMatches(p, ch) == p = "." \/ LowerCh(p) = LowerCh(ch)

RegexSearch(pat, text) ==
    \E k \in 0..(Len(text) - Len(pat)) :
        \A j \in 1..Len(pat) : RegexCharMatches(pat[j], text[k + j])

\* Series.str.contains(pat, case=False), regex=True by default
StrContains(text, pat) == RegexSearch(pat, text)

(***************************************************************************)
(* The script                                                              *)
(***************************************************************************)
NotRunYet == [state |-> "NotRun", frame |-> <<>>]
NoModel == [state |-> "None", frame |-> <<>>]
Loaded(table) == [state |-> "Frame", frame |-> table]

NoProduct == [chosen |-> FALSE, item |-> <<>>]
Product(p) == [chosen |-> TRUE, item |-> p]

\* load_model() under st.cache_resource: a cached return value, None included,
\* is reused; an exception other than FileNotFoundError leaves the function.
\* A malformed artifact is one joblib.load cannot unpickle; the exception it
\* raises (UnpicklingError here, EOFError or others in practice) is never a
\* FileNotFoundError.
LoadModel(cached, art) ==
    IF cached.state # "NotRun" THEN [rules |-> cached, exception |-> "none"]
    ELSE IF art.kind = "NotFound" THEN [rules |-> NoModel, exception |-> "none"]
    ELSE IF art.kind = "Malformed" THEN [rules |-> NotRunYet, exception |-> "UnpicklingError"]
    ELSE [rules |-> Loaded(art.table), exception |-> "none"]

\* faulty variant: the lift comparison made strict
RulesFilteredStrict(df, minConfidence, minLift) ==
    LET Keep(r) == r.confidence >= minConfidence /\ r.lift > minLift
    IN  SelectSeq(df, Keep)

\* faulty variant: the lift condition dropped from the mask
RulesFilteredConfOnly(df, minConfidence, minLift) ==
    LET Keep(r) == r.confidence >= minConfidence
    IN  SelectSeq(df, Keep)

\* rules[(rules['confidence'] >= min_confidence) & (rules['lift'] >= min_lift)].copy()
RulesFiltered(df, minConfidence, minLift) ==
    LET Keep(r) == r.confidence >= minConfidence /\ r.lift >= minLift
    IN  SelectSeq(df, Keep)

\* sorted(list(all_products)) over the antecedents of the whole table
AllProducts(df) ==
    LET items == UNION {df[i].antecedents : i \in 1..Len(df)}
    IN  CHOOSE p \in Perms(items) : \A i, j \in 1..Len(p) : i < j => StrLess(p[i], p[j])

\* st.selectbox(..., index=0): the stored choice, else the first option, else None
SelectedProduct(widget, options) ==
    IF widget.chosen THEN widget
    ELSE IF options # <<>> THEN Product(options[1])
    ELSE NoProduct

\* rules_filtered[rules_filtered['antecedents'].apply(lambda x: selected_product in x)].copy()
Matching(df, product) ==
    LET Keep(r) == product.chosen /\ product.item \in r.antecedents
    IN  SelectSeq(df, Keep)

\* the rows of the button's branch: nlargest only when something matched
Recommendations(df, product, topN) ==
    LET matching == Matching(df, product)
    IN  IF Len(matching) > 0 THEN NLargest(matching, topN) ELSE matching

\* one card per recommended row
Card(row) ==
    [idx |-> row.idx,
     consequent |-> ListOf(row.consequents)[1],
     confidence |-> TextPct[row.confidence],
     lift |-> TextLift[row.lift],
     support |-> Text3f[row.support]]

Cards(df) == [i \in 1..Len(df) |-> Card(df[i])]

\* display_rules and display_df: joined item text and formatted numbers, on a copy
DisplayRow(row) ==
    [idx |-> row.idx,
     Antecedente |-> Join(ListOf(row.antecedents)),
     Consecuente |-> Join(ListOf(row.consequents)),
     Support |-> Text4f[row.support],
     Confidence |-> Text4f[row.confidence],
     Lift |-> TextLift[row.lift]]

DisplayDf(df) == [i \in 1..Len(df) |-> DisplayRow(df[i])]

\* if search: display_df = display_df[mask]
SearchRules(df, query) ==
    LET Keep(row) == StrContains(row.Antecedente, query) \/ StrContains(row.Consecuente, query)
    IN  IF query = <<>> THEN df ELSE SelectSeq(df, Keep)

\* display_df.to_csv(index=False)
ToCsv(df) ==
    [header |-> <<"Antecedente", "Consecuente", "Support", "Confidence", "Lift">>,
     rows |-> [i \in 1..Len(df) |->
                 <<df[i].Antecedente, df[i].Consecuente, df[i].Support,
                   df[i].Confidence, df[i].Lift>>]]

\* the sidebar metrics, all of them over the whole table
Sidebar(df) ==
    [total |-> Len(df),
     mean_support |-> Fmt4f(Mean(df, "support", 100)),
     mean_confidence |-> Fmt4f(Mean(df, "confidence", 100)),
     mean_lift |-> Fmt2f(Mean(df, "lift", 10))]

\* faulty variant: the maxima taken over the whole table
StatsOverTable(filtered, df) ==
    [total |-> Len(filtered),
     delta |-> Len(filtered) - Len(df),
     max_lift |-> Fmt2f(Max(df, "lift", 10)),
     max_confidence |-> FmtPct(Max(df, "confidence", 100))]

\* faulty variant: an empty column's maximum shown as zero
StatsZeroWhenEmpty(filtered, df) ==
    [total |-> Len(filtered),
     delta |-> Len(filtered) - Len(df),
     max_lift |-> IF filtered = <<>> THEN Fmt2f([nan |-> FALSE, num |-> 0, den |-> 10])
                  ELSE Fmt2f(Max(filtered, "lift", 10)),
     max_confidence |-> IF filtered = <<>> THEN FmtPct([nan |-> FALSE, num |-> 0, den |-> 100])
                        ELSE FmtPct(Max(filtered, "confidence", 100))]

\* the three metrics of the statistics tab, over rules_filtered
Stats(filtered, df) ==
    [total |-> Len(filtered),
     delta |-> Len(filtered) - Len(df),
     max_lift |-> Fmt2f(Max(filtered, "lift", 10)),
     max_confidence |-> FmtPct(Max(filtered, "confidence", 100))]

\* top_10 and top_10_display
Top10(filtered) == NLargest(filtered, TopK)

Top10Display(top) ==
    [i \in 1..Len(top) |->
        [idx |-> top[i].idx,
         antecedent |-> Prefix(ListOf(top[i].antecedents)[1], NameCut),
         consequent |-> Prefix(ListOf(top[i].consequents)[1], NameCut),
         Lift |-> top[i].lift,
         Confidence |-> top[i].confidence]]

NoSidebar == [total |-> 0, mean_support |-> <<>>, mean_confidence |-> <<>>, mean_lift |-> <<>>]
NoStats == [total |-> 0, delta |-> 0, max_lift |-> <<>>, max_confidence |-> <<>>]
NoCsv == [header |-> <<>>, rows |-> <<>>]

\* nothing rendered
Blank ==
    [trigger |-> "none", exception |-> "none", sections |-> {}, messages |-> {},
     sidebar |-> NoSidebar, filtered_count |-> 0, rules_filtered |-> <<>>,
     all_products |-> <<>>, product |-> NoProduct, recommendations |-> <<>>,
     cards |-> <<>>, display_df |-> <<>>, csv |-> NoCsv, stats |-> NoStats,
     top_10_display |-> <<>>]

\* One run of app.py from top to bottom. `loaded` is what load_model() gave,
\* `clicked` whether this run was started by the recommendation button.
Script(loaded, minConfidence, minLift, widget, topN, query, trigger) ==
    IF loaded.exception # "none" THEN
        [Blank EXCEPT !.trigger = trigger, !.exception = loaded.exception]
    ELSE IF loaded.rules.state # "Frame" THEN
        [Blank EXCEPT !.trigger = trigger, !.sections = {"fallback"},
                      !.messages = {"model file not found", "run the training notebook first",
                                    "model could not be loaded", "steps to generate the model"}]
    ELSE
        LET df == loaded.rules.frame
            filtered == RulesFiltered(df, minConfidence, minLift)
            products == AllProducts(df)
            product == SelectedProduct(widget, products)
            clicked == trigger = "click"
            recs == IF clicked THEN Recommendations(filtered, product, topN) ELSE <<>>
            tab1 == [Blank EXCEPT
                        !.trigger = trigger,
                        !.sections = {"sidebar", "tab1"},
                        !.sidebar = Sidebar(df),
                        !.filtered_count = Len(filtered),
                        !.rules_filtered = filtered,
                        !.all_products = products,
                        !.product = product,
                        !.recommendations = recs,
                        !.cards = Cards(recs),
                        !.messages =
                            IF ~clicked THEN {}
                            ELSE IF Len(recs) > 0 THEN {"recommendations found"}
                            ELSE {"no recommendations found", "adjust the filters or pick another product"}]
        IN  IF query # <<>> /\ RegexError(query) THEN
                [tab1 EXCEPT !.exception = "re.error"]
            ELSE
                LET shown == SearchRules(DisplayDf(filtered), query)
                IN  [tab1 EXCEPT
                        !.sections = {"sidebar", "tab1", "tab2", "tab3"},
                        !.display_df = shown,
                        !.csv = ToCsv(shown),
                        !.stats = Stats(filtered, df),
                        !.top_10_display = Top10Display(Top10(filtered))]

\* faulty variant: the mask applied to the cached table itself
CachedFilteredInPlace(loaded, rendered) ==
    IF loaded.rules.state = "Frame" THEN [loaded.rules EXCEPT !.frame = rendered.rules_filtered]
    ELSE loaded.rules

\* What st.cache_resource holds once the run is over. Every frame the script
\* writes to is a .copy() (lines 53, 89, 122, 134), so the cached object is
\* the one load_model() returned.
Cached(loaded, rendered) == loaded.rules

\* faulty variant: thresholds outside the slider ranges rejected with a ValueError
FilterStepValidating(df, minConfidence, minLift) ==
    IF minConfidence \in ConfMin..ConfMax /\ minLift \in LiftMin..LiftMax
    THEN [exception |-> "none", frame |-> RulesFiltered(df, minConfidence, minLift)]
    ELSE [exception |-> "ValueError", frame |-> <<>>]

\* lines 50-53 taken alone: the comparison accepts any numbers and never raises
FilterStep(df, minConfidence, minLift) ==
    [exception |-> "none", frame |-> RulesFiltered(df, minConfidence, minLift)]

(***************************************************************************)
(* The session                                                             *)
(***************************************************************************)
ArtifactKinds == {"NotFound", "Malformed", "Ok"}

\* the frozensets of a table and their possible iteration orders
ItemSetsOf(table) == UNION {{table[i].antecedents, table[i].consequents} : i \in 1..Len(table)}

SetOrders(table) ==
    {f \in [ItemSetsOf(table) -> UNION {Perms(s) : s \in ItemSetsOf(table)}] :
        \A s \in ItemSetsOf(table) : f[s] \in Perms(s)}

\* slider and number_input positions the model visits
SliderGrid(lo, hi, step) == {v \in lo..hi : (v - lo) % step = 0}

\* the default and the position one step below it, where a rule of
\* RuleUniverse sits exactly on each threshold
ConfPositions ==
    SliderGrid(ConfMin, ConfMax, ConfStep) \cap {ConfDefault - ConfStep, ConfDefault}

LiftPositions ==
    SliderGrid(LiftMin, LiftMax, LiftStep) \cap {LiftDefault - LiftStep, LiftDefault}

TopNPositions == {n \in TopNMin..TopNMax : n <= MaxTopN \/ n = TopNDefault}

\* what the user types into the search box
Queries == {<<>>, <<"A", "B">>, <<".">>, <<"(">>}

Init ==
    /\ \E kind \in ArtifactKinds, table \in Tables :
          /\ kind # "Ok" => table = <<>>
          /\ artifact = [kind |-> kind, table |-> table]
          /\ setOrder \in SetOrders(table)
    /\ rules = NotRunYet
    /\ min_confidence = ConfDefault
    /\ min_lift = LiftDefault
    /\ selected_product = NoProduct
    /\ top_n = TopNDefault
    /\ search = <<>>
    /\ out = Blank

\* the widgets take their new values and the script runs from the top
Run(trigger, minConfidence, minLift, widget, topN, query) ==
    \E loaded \in {LoadModel(rules, artifact)} :
    \E rendered \in {Script(loaded, minConfidence, minLift, widget, topN, query, trigger)} :
        /\ rules' = Cached(loaded, rendered)
        /\ min_confidence' = minConfidence
        /\ min_lift' = minLift
        /\ selected_product' = IF "tab1" \in rendered.sections THEN rendered.product ELSE widget
        /\ top_n' = topN
        /\ search' = query
        /\ out' = rendered
        /\ UNCHANGED <<artifact, setOrder>>

\* the page is opened or reloaded
Rerun == Run("run", min_confidence, min_lift, selected_product, top_n, search)

SetConfidence ==
    \E c \in ConfPositions :
        /\ "sidebar" \in out.sections
        /\ c # min_confidence
        /\ Run("run", c, min_lift, selected_product, top_n, search)

SetLift ==
    \E l \in LiftPositions :
        /\ "sidebar" \in out.sections
        /\ l # min_lift
        /\ Run("run", min_confidence, l, selected_product, top_n, search)

SelectProduct ==
    \E i \in 1..Len(out.all_products) :
        /\ "tab1" \in out.sections
        /\ Product(out.all_products[i]) # selected_product
        /\ Run("run", min_confidence, min_lift, Product(out.all_products[i]), top_n, search)

SetTopN ==
    \E n \in TopNPositions :
        /\ "tab1" \in out.sections
        /\ n # top_n
        /\ Run("run", min_confidence, min_lift, selected_product, n, search)

ClickRecommend ==
    /\ "tab1" \in out.sections
    /\ Run("click", min_confidence, min_lift, selected_product, top_n, search)

TypeSearch ==
    \E q \in Queries :
        /\ "tab1" \in out.sections
        /\ q # search
        /\ Run("run", min_confidence, min_lift, selected_product, top_n, q)

Download ==
    /\ "tab2" \in out.sections
    /\ Run("run", min_confidence, min_lift, selected_product, top_n, search)

Next ==
    \/ Rerun
    \/ SetConfidence
    \/ SetLift
    \/ SelectProduct
    \/ SetTopN
    \/ ClickRecommend
    \/ TypeSearch
    \/ Download

Spec == Init /\ [][Next]_vars

(***************************************************************************)
(* The threshold filter on its own, over any table and any thresholds      *)
(***************************************************************************)
LibConfidences == {-5, 0, 25, 30, 40, 100, 105}
LibLifts == {-5, 5, 10, 11, 13, 18, 150, 155}

LibInit ==
    /\ \E table \in Tables :
          /\ artifact = [kind |-> "Ok", table |-> table]
          /\ setOrder \in SetOrders(table)
          /\ rules = Loaded(table)
    /\ min_confidence \in LibConfidences
    /\ min_lift \in LibLifts
    /\ selected_product = NoProduct
    /\ top_n = TopNDefault
    /\ search = <<>>
    /\ out = Blank

LibFilter ==
    LET step == FilterStep(rules.frame, min_confidence, min_lift)
    IN  /\ out.trigger = "none"
        /\ out' = [Blank EXCEPT !.trigger = "filter", !.exception = step.exception,
                                !.filtered_count = Len(step.frame),
                                !.rules_filtered = step.frame]
        /\ UNCHANGED <<artifact, setOrder, rules, min_confidence, min_lift,
                       selected_product, top_n, search>>

LibNext == LibFilter

LibSpec == LibInit /\ [][LibNext]_vars

(***************************************************************************)
(* Properties                                                              *)
(***************************************************************************)
Rows(df) == {df[i] : i \in 1..Len(df)}
Labels(df) == {df[i].idx : i \in 1..Len(df)}

\* the rules of the loaded table that pass the current thresholds
Passing == {r \in Rows(rules.frame) : r.confidence >= min_confidence /\ r.lift >= min_lift}

RECURSIVE PairSum(_)
PairSum(P) == IF P = {} THEN 0 ELSE LET p == CHOOSE x \in P : TRUE IN p[2] + PairSum(P \ {p})

SetSum(S, col) == PairSum({<<r.idx, r[col]>> : r \in S})

SetMean(S, col, scale) ==
    IF S = {} THEN NaN ELSE [nan |-> FALSE, num |-> SetSum(S, col), den |-> scale * Cardinality(S)]

SetMax(S, col, scale) ==
    IF S = {} THEN NaN
    ELSE [nan |-> FALSE, num |-> CHOOSE m \in {r[col] : r \in S} : \A r \in S : r[col] <= m,
          den |-> scale]

Filtered == out.trigger = "filter"
OutOfRange == min_confidence \notin ConfMin..ConfMax \/ min_lift \notin LiftMin..LiftMax

\* C1: the threshold filter returns exactly the rules of the table with
\* confidence >= minConfidence and lift >= minLift, each once: nothing
\* returned fails a condition and nothing that passes both is left out.
C1_FilterExact ==
    Filtered =>
        /\ Rows(out.rules_filtered) = Passing
        /\ Len(out.rules_filtered) = Cardinality(Passing)

\* C1 witness: the filter has kept some rules and dropped others
C1_Witness ==
    /\ Filtered
    /\ out.rules_filtered # <<>>
    /\ \E r \in Rows(rules.frame) : r.confidence < min_confidence
    /\ \E r \in Rows(rules.frame) : r.lift < min_lift /\ r.confidence >= min_confidence

Clicked == out.trigger = "click"

\* the rules of the filtered view whose antecedent holds the selected product
MatchingRows ==
    {r \in Rows(out.rules_filtered) :
        selected_product.chosen /\ selected_product.item \in r.antecedents}

Smaller(a, b) == IF a < b THEN a ELSE b

\* C2: the recommendations hold only rules whose antecedent contains the
\* item, number min(topN, matching rules), and descend by lift.
C2_Recommendations ==
    Clicked =>
        /\ Rows(out.recommendations) \subseteq MatchingRows
        /\ Len(out.recommendations) = Smaller(top_n, Cardinality(MatchingRows))
        /\ \A i, j \in 1..Len(out.recommendations) :
              i < j => out.recommendations[i].lift >= out.recommendations[j].lift

\* C2 witness: more rules match than topN allows, and topN of them are shown
C2_Witness ==
    /\ Clicked
    /\ Cardinality(MatchingRows) > top_n
    /\ Len(out.recommendations) = top_n

\* rows of equal lift keep the order of their index labels, and a row is
\* never dropped in favour of a later row of the same lift
StableRanking(ranked, input) ==
    /\ \A i, j \in 1..Len(ranked) :
          (i < j /\ ranked[i].lift = ranked[j].lift) => ranked[i].idx < ranked[j].idx
    /\ \A kept \in Rows(ranked), dropped \in input :
          (dropped.idx \notin Labels(ranked) /\ dropped.lift = kept.lift) => kept.idx < dropped.idx

C4_LoadFailureHandled ==
    (out.trigger # "none" /\ artifact.kind \in {"NotFound", "Malformed"}) =>
        /\ out.exception = "none"
        /\ rules.state = "None"
        /\ "steps to generate the model" \in out.messages
        /\ out.sections = {"fallback"}

\* str.contains as C5 reads it: the lower-cased query is a literal substring
LiteralContains(text, query) ==
    \E k \in 0..(Len(text) - Len(query)) :
        \A j \in 1..Len(query) : LowerCh(query[j]) = LowerCh(text[k + j])

\* C5 as stated: a rule is kept iff the query occurs, case-insensitively and
\* literally, in the joined antecedent text or in the joined consequent
\* text; no query is an error.
C5_LiteralSearch ==
    "tab1" \in out.sections =>
        /\ out.exception = "none"
        /\ Labels(out.display_df) =
              {r.idx : r \in {x \in Rows(out.rules_filtered) :
                  \/ LiteralContains(Join(ListOf(x.antecedents)), search)
                  \/ LiteralContains(Join(ListOf(x.consequents)), search)}}

\* C7 as stated: with no rule passing the thresholds the count is 0, the
\* means and the maxima are shown as not-a-number, the top list is empty
\* and nothing is raised.
C7_EmptyIsNoData ==
    ("tab3" \in out.sections /\ Passing = {}) =>
        /\ out.exception = "none"
        /\ out.stats.total = 0
        /\ out.sidebar.mean_support = Fmt4f(NaN)
        /\ out.sidebar.mean_confidence = Fmt4f(NaN)
        /\ out.sidebar.mean_lift = Fmt2f(NaN)
        /\ out.stats.max_lift = Fmt2f(NaN)
        /\ out.stats.max_confidence = FmtPct(NaN)
        /\ out.top_10_display = <<>>

\* C7 amended: with no rule passing the thresholds the filtered count is 0,
\* the two maxima are shown as "nan" and "nan%", the top list is empty and
\* the statistics raise nothing; the means are those of the whole table
\* and are "nan" only when the table itself is empty.
C7_EmptyStatistics ==
    ("tab3" \in out.sections /\ Passing = {}) =>
        /\ out.exception = "none"
        /\ out.stats.total = 0
        /\ out.filtered_count = 0
        /\ out.stats.max_lift = <<"n", "a", "n">>
        /\ out.stats.max_confidence = <<"n", "a", "n", "%">>
        /\ out.top_10_display = <<>>
        /\ (out.sidebar.mean_lift = <<"n", "a", "n">>) <=> (rules.frame = <<>>)
        /\ (out.sidebar.mean_support = <<"n", "a", "n">>) <=> (rules.frame = <<>>)
        /\ (out.sidebar.mean_confidence = <<"n", "a", "n">>) <=> (rules.frame = <<>>)

\* C7 witness: a table with rules, none of which passes the thresholds
C7_Witness ==
    /\ "tab3" \in out.sections
    /\ Passing = {}
    /\ rules.frame # <<>>

C9_AllOverFiltered ==
    "tab3" \in out.sections =>
        /\ out.stats.total = Cardinality(Passing)
        /\ out.sidebar.mean_support = Fmt4f(SetMean(Passing, "support", 100))
        /\ out.sidebar.mean_confidence = Fmt4f(SetMean(Passing, "confidence", 100))
        /\ out.sidebar.mean_lift = Fmt2f(SetMean(Passing, "lift", 10))
        /\ out.stats.max_lift = Fmt2f(SetMax(Passing, "lift", 10))
        /\ out.stats.max_confidence = FmtPct(SetMax(Passing, "confidence", 100))

\* C9 amended: the filtered count and the two maxima are those of the rules
\* that pass the thresholds; the three means, and the sidebar total, are
\* those of the whole table whatever the thresholds.
C9_MeansOverTable ==
    "tab3" \in out.sections =>
        /\ out.stats.total = Cardinality(Passing)
        /\ out.filtered_count = Cardinality(Passing)
        /\ out.stats.max_lift = Fmt2f(SetMax(Passing, "lift", 10))
        /\ out.stats.max_confidence = FmtPct(SetMax(Passing, "confidence", 100))
        /\ out.sidebar.total = Cardinality(Rows(rules.frame))
        /\ out.sidebar.mean_support = Fmt4f(SetMean(Rows(rules.frame), "support", 100))
        /\ out.sidebar.mean_confidence = Fmt4f(SetMean(Rows(rules.frame), "confidence", 100))
        /\ out.sidebar.mean_lift = Fmt2f(SetMean(Rows(rules.frame), "lift", 10))

\* C9 witness: some rules pass, some do not, and the two means of lift and
\* the two maxima of lift differ
C9_Witness ==
    /\ "tab3" \in out.sections
    /\ Passing # {}
    /\ Passing # Rows(rules.frame)
    /\ out.sidebar.mean_lift # Fmt2f(SetMean(Passing, "lift", 10))
    /\ out.stats.max_lift # Fmt2f(SetMax(Rows(rules.frame), "lift", 10))

\* C10: every recommendation on the page is a rule of the loaded table that
\* meets the current thresholds and has the selected product in its
\* antecedent; when no rule does, the list is empty and the notice is shown.
C10_OverFilteredView ==
    /\ \A r \in Rows(out.recommendations) :
          /\ r \in Passing
          /\ selected_product.chosen
          /\ selected_product.item \in r.antecedents
    /\ Labels(out.recommendations) = {out.cards[i].idx : i \in 1..Len(out.cards)}
    /\ Len(out.cards) = Len(out.recommendations)
    /\ (Clicked /\ ~\E r \in Passing : selected_product.chosen /\ selected_product.item \in r.antecedents) =>
          /\ out.recommendations = <<>>
          /\ "no recommendations found" \in out.messages

\* C10 witness: recommendations on the page while a rule with the selected
\* product in its antecedent is held back by the thresholds
C10_Witness ==
    /\ Clicked
    /\ out.recommendations # <<>>
    /\ \E r \in Rows(rules.frame) \ Passing : selected_product.item \in r.antecedents

====
